---- MODULE Spec2Model ----
(***************************************************************************)
(* Model of the llm_lab assignment tooling:                                *)
(*   - check_submission.py : the submission checker CLI                    *)
(*   - utils.py            : is_valid_student_id                           *)
(*   - safety_checker.py   : MySafetyChecker.forward                       *)
(*                                                                         *)
(* Four specifications share the module:                                   *)
(*   Spec        one run of check_submission + the report of main          *)
(*   SpecVersion one run of check_script_version inside main               *)
(*   SpecId      the CLI entry point and is_valid_student_id               *)
(*   SpecSafety  one call of MySafetyChecker.forward                       *)
(***************************************************************************)
EXTENDS Integers, Sequences, FiniteSets, TLC

VARIABLES
    archive,        \* the submission zip as found on disk
    pc,             \* position of the run of main
    called,         \* the checks entered so far, in order
    warnings_list,  \* warnings recorded by warnings.catch_warnings(record=True)
    stdout,         \* what main printed
    raised,         \* the exception that ended the run, or NoError
    env,            \* check_script_version: what the host's tools will do
    argv,           \* entry point: the student id argument, a sequence of characters
    argc,           \* entry point: len(sys.argv)
    returned,       \* return value of is_valid_student_id, "none" before the call
    exit_status,    \* status passed to sys.exit, -1 while running
    sim,            \* forward: similarity matrix, in units of 0.0001
    images,         \* forward: the images batch (updated in place)
    given,          \* forward: the images as they were passed in
    has_nsfw_concepts \* forward: the returned flags

checkerVars == <<archive, called, warnings_list>>
versionVars == <<env>>
idVars == <<argv, argc, returned, exit_status>>
safetyVars == <<sim, images, given, has_nsfw_concepts>>
vars == <<archive, pc, called, warnings_list, stdout, raised, env, argv, argc,
          returned, exit_status, sim, images, given, has_nsfw_concepts>>

(***************************************************************************)
(* Bounds of the model.                                                    *)
(***************************************************************************)
\* lengths and sizes range over [constant - MaxDelta, constant + MaxDelta]
MaxDelta == 1
\* an archive differs from a complete, valid one in at most that many entries
MaxDeviations == 2

(***************************************************************************)
(* Program constants (check_submission.py:29-50).                          *)
(***************************************************************************)
DECLARATION_OF_ORIGINALITY_FILENAME == "declaration_originality.pdf"
Q1_GENS_FILENAME == "Q1_gens.npy"
Q1_GUESSES_FILENAME == "Q1_guesses.npy"
Q1_GENS_SHAPE == <<60>>
Q1_GUESSES_SHAPE == <<80>>
Q1_GUESSES_RANGE == <<1, 4>>
Q2_API_KEY_FILENAME == "Q2_key.txt"
Q2_CODE_FILENAME == "Q2_code"
Q2_CODE_EXTENSIONS == <<".py", ".ipynb">>
Q2_PVALUE_FILENAME == "Q2_pvalue.npy"
Q2_BOOL_FILENAME == "Q2_bool.npy"
Q2_ARRAYS_SHAPE == <<140>>
Q2_KEY_LEN == 50
Q3_GUESSES_FILENAME == "Q3_guesses.txt"
Q3_GUESSES_LEN == 21

(***************************************************************************)
(* Values.                                                                 *)
(***************************************************************************)
\* a .npy file: dtype, shape, and the least and greatest stored value
NpyFile(dtype, shape, lo, hi) ==
    [present |-> TRUE, dtype |-> dtype, shape |-> shape, lo |-> lo, hi |-> hi]
NoNpyFile == [present |-> FALSE, dtype |-> "", shape |-> <<>>, lo |-> 0, hi |-> 0]

\* Q2_key.txt after strip(): chars characters of the base64 alphabet
\* (A-Z a-z 0-9 - _ + /) and junk characters outside it
KeyFile(chars, junk) == [present |-> TRUE, chars |-> chars, junk |-> junk]
NoKeyFile == [present |-> FALSE, chars |-> 0, junk |-> 0]

\* Q3_guesses.txt: the number of lines readlines() returns
TextFile(lines) == [present |-> TRUE, lines |-> lines]
NoTextFile == [present |-> FALSE, lines |-> 0]

NoError == [exc |-> "none", file |-> "", loaded |-> "", constraint |-> ""]
\* exc: the exception class; file: the file the message names;
\* loaded: the file whose content was being checked; constraint: what failed
InvalidSubmissionError(file, loaded, constraint) ==
    [exc |-> "InvalidSubmissionError", file |-> file, loaded |-> loaded,
     constraint |-> constraint]
IndexError(loaded) ==
    [exc |-> "IndexError", file |-> "", loaded |-> loaded, constraint |-> "shape[0]"]

MissingSubmissionFileWarning(file) == [category |-> "MissingSubmissionFileWarning", file |-> file]

\* the result of one check: the warnings it issued and how it ended
Result(ws, err) == [warnings |-> ws, error |-> err]

\* number of elements of an array of the given shape (numpy: product of dims)
RECURSIVE Size(_)
Size(shape) == IF shape = <<>> THEN 1 ELSE Head(shape) * Size(Tail(shape))

(***************************************************************************)
(* check_submission.py: pure helpers.                                      *)
(***************************************************************************)
\* has_specific_subdirectory(root_path, zip_file_path.stem)
has_specific_subdirectory(a) == a.subdir

\* the folder check_submission resolves as root_path: "sub" is the top-level
\* directory named after the archive, "top" the top level of the zip
root_path(a) == IF has_specific_subdirectory(a) THEN "sub" ELSE "top"

\* variant: the declaration is looked up at the top level of the zip even when
\* the root was resolved to the subdirectory
DeclarationExists_top(a) == a.declTop

\* (root_path / DECLARATION_OF_ORIGINALITY_FILENAME).exists()
DeclarationExists(a) == IF root_path(a) = "sub" THEN a.declSub ELSE a.declTop

\* base64.b64decode (non-validating) of chars alphabet characters followed by
\* pad "=" signs: the number of decoded bytes, or -1 when binascii raises
b64decode(chars, pad) ==
    CASE chars % 4 = 0 -> 3 * (chars \div 4)
      [] chars % 4 = 1 -> -1
      [] chars % 4 = 2 -> IF pad >= 2 THEN 3 * (chars \div 4) + 1 ELSE -1
      [] chars % 4 = 3 -> IF pad >= 1 THEN 3 * (chars \div 4) + 2 ELSE -1

\* is_valid_token_urlsafe(token, key_len); characters outside the alphabet
\* count for the padding but are discarded by the decoder
is_valid_token_urlsafe(token, key_len) ==
    LET len == token.chars + token.junk
        pad == IF (len % 4) # 0 THEN 4 - (len % 4) ELSE 0
    IN  b64decode(token.chars, pad) = key_len

\* variant: the loop stops at the first existing code file
Q2CodeFiles_first(f) == IF f.code_py \/ f.code_ipynb THEN "one" ELSE "none"

\* the loop over Q2_CODE_EXTENSIONS in check_q2: "multiple" when the second
\* existing file is met, else whether code_file_exists
Q2CodeFiles(f) ==
    LET exists == <<f.code_py, f.code_ipynb>>
    IN  IF exists[1] /\ exists[2] THEN "multiple"
        ELSE IF exists[1] \/ exists[2] THEN "one" ELSE "none"

(***************************************************************************)
(* check_q1                                                                *)
(***************************************************************************)
Q1GensCheck(f) ==
    IF ~f.gens.present
    THEN Result(<<MissingSubmissionFileWarning(Q1_GENS_FILENAME)>>, NoError)
    ELSE IF f.gens.dtype # "str"
    THEN Result(<<>>, InvalidSubmissionError(Q1_GUESSES_FILENAME, Q1_GENS_FILENAME, "dtype"))
    ELSE IF f.gens.shape # Q1_GENS_SHAPE
    THEN Result(<<>>, InvalidSubmissionError(Q1_GENS_FILENAME, Q1_GENS_FILENAME, "shape"))
    ELSE Result(<<>>, NoError)

Q1GuessesCheck(f) ==
    IF ~f.guesses.present
    THEN Result(<<MissingSubmissionFileWarning(Q1_GUESSES_FILENAME)>>, NoError)
    ELSE IF f.guesses.dtype # "int"
    THEN Result(<<>>, InvalidSubmissionError(Q1_GUESSES_FILENAME, Q1_GUESSES_FILENAME, "dtype"))
    ELSE IF ~(Size(f.guesses.shape) = 0
              \/ (f.guesses.lo >= Q1_GUESSES_RANGE[1] /\ f.guesses.hi <= Q1_GUESSES_RANGE[2]))
    THEN Result(<<>>, InvalidSubmissionError(Q1_GUESSES_FILENAME, Q1_GUESSES_FILENAME, "range"))
    ELSE IF f.guesses.shape # Q1_GUESSES_SHAPE
    THEN Result(<<>>, InvalidSubmissionError(Q1_GUESSES_FILENAME, Q1_GUESSES_FILENAME, "shape"))
    ELSE Result(<<>>, NoError)

check_q1(f) ==
    LET g == Q1GensCheck(f)
        h == Q1GuessesCheck(f)
    IN  IF g.error # NoError THEN g
        ELSE Result(g.warnings \o h.warnings, h.error)

(***************************************************************************)
(* check_q2                                                                *)
(***************************************************************************)
\* one iteration of the loop over [Q2_PVALUE_FILENAME, Q2_BOOL_FILENAME]
Q2ArrayCheck(file, array) ==
    IF ~array.present
    THEN Result(<<MissingSubmissionFileWarning(file)>>, NoError)
    ELSE IF array.dtype # "int"
    THEN Result(<<>>, InvalidSubmissionError(file, file, "dtype"))
    ELSE IF array.shape = <<>>
    THEN Result(<<>>, IndexError(file))
    ELSE IF array.shape[1] > Q2_ARRAYS_SHAPE[1]
    THEN Result(<<>>, InvalidSubmissionError(file, file, "size"))
    ELSE Result(<<>>, NoError)

check_q2(f) ==
    IF ~f.key.present
    THEN Result(<<MissingSubmissionFileWarning(Q2_API_KEY_FILENAME)>>, NoError)
    ELSE IF ~is_valid_token_urlsafe(f.key, Q2_KEY_LEN)
    THEN Result(<<>>, InvalidSubmissionError(Q2_API_KEY_FILENAME, Q2_API_KEY_FILENAME, "decode"))
    ELSE IF Q2CodeFiles(f) = "multiple"
    THEN Result(<<>>, InvalidSubmissionError(Q2_CODE_FILENAME, Q2_CODE_FILENAME, "multiple"))
    ELSE IF Q2CodeFiles(f) = "none"
    THEN Result(<<MissingSubmissionFileWarning(Q2_CODE_FILENAME)>>, NoError)
    ELSE LET p == Q2ArrayCheck(Q2_PVALUE_FILENAME, f.pvalue)
             b == Q2ArrayCheck(Q2_BOOL_FILENAME, f.bool)
         IN  IF p.error # NoError THEN p
             ELSE Result(p.warnings \o b.warnings, b.error)

(***************************************************************************)
(* check_q3                                                                *)
(***************************************************************************)
check_q3(f) ==
    IF ~f.q3.present
    THEN Result(<<MissingSubmissionFileWarning(Q3_GUESSES_FILENAME)>>, NoError)
    ELSE IF f.q3.lines # Q3_GUESSES_LEN
    THEN Result(<<>>, InvalidSubmissionError(Q3_GUESSES_FILENAME, Q3_GUESSES_FILENAME, "lines"))
    ELSE Result(<<>>, NoError)

(***************************************************************************)
(* The archives of the model.                                              *)
(***************************************************************************)
Around(n) == (n - MaxDelta) .. (n + MaxDelta)

\* a complete submission: every artifact present and as the assignment asks
GoodArchive ==
    [zipExists |-> TRUE, subdir |-> FALSE, declTop |-> TRUE, declSub |-> FALSE,
     gens |-> NpyFile("str", Q1_GENS_SHAPE, 0, 0),
     guesses |-> NpyFile("int", Q1_GUESSES_SHAPE, 1, 4),
     key |-> KeyFile(67, 0),
     code_py |-> TRUE, code_ipynb |-> FALSE,
     pvalue |-> NpyFile("int", Q2_ARRAYS_SHAPE, 0, 100),
     bool |-> NpyFile("int", Q2_ARRAYS_SHAPE, 0, 1),
     q3 |-> TextFile(Q3_GUESSES_LEN)]

Q2ArrayFiles ==
    {NoNpyFile, NpyFile("float", Q2_ARRAYS_SHAPE, 0, 1)}
    \cup {NpyFile("int", <<n>>, 0, 1) : n \in Around(Q2_ARRAYS_SHAPE[1])}
    \cup {NpyFile("int", s, 0, 1) : s \in {<<>>, <<2, 100>>, <<141, 0>>}}

\* the values an entry of the archive may take
Domain ==
    [zipExists |-> BOOLEAN, subdir |-> BOOLEAN, declTop |-> BOOLEAN, declSub |-> BOOLEAN,
     gens |-> {NoNpyFile, NpyFile("int", Q1_GENS_SHAPE, 0, 0)}
              \cup {NpyFile("str", <<n>>, 0, 0) : n \in Around(Q1_GENS_SHAPE[1])},
     guesses |-> {NoNpyFile, NpyFile("float", Q1_GUESSES_SHAPE, 1, 4),
                  NpyFile("int", Q1_GUESSES_SHAPE, 0, 4),
                  NpyFile("int", Q1_GUESSES_SHAPE, 1, 5)}
                 \cup {NpyFile("int", <<n>>, 1, 4) : n \in Around(Q1_GUESSES_SHAPE[1])},
     key |-> {NoKeyFile} \cup {KeyFile(n, 0) : n \in Around(67)}
             \cup {KeyFile(67, j) : j \in 1 .. MaxDelta},
     code_py |-> BOOLEAN, code_ipynb |-> BOOLEAN,
     pvalue |-> Q2ArrayFiles,
     bool |-> Q2ArrayFiles,
     q3 |-> {NoTextFile} \cup {TextFile(n) : n \in Around(Q3_GUESSES_LEN)}]

RECURSIVE Deviate(_)
Deviate(k) ==
    IF k = 0 THEN {GoodArchive}
    ELSE LET S == Deviate(k - 1)
         IN  S \cup UNION {{[a EXCEPT ![e] = v] : v \in Domain[e]} :
                           a \in S, e \in DOMAIN Domain}

\* a directory that does not exist holds no declaration
Archives == {a \in Deviate(MaxDeviations) : a.declSub => a.subdir}

(***************************************************************************)
(* One run of main, from the call of check_submission on.                  *)
(***************************************************************************)
Init ==
    /\ archive \in Archives
    /\ pc = "check_submission"
    /\ called = <<>>
    /\ warnings_list = <<>>
    /\ stdout = <<>>
    /\ raised = NoError
    /\ env = <<>> /\ argv = <<>> /\ argc = 0 /\ returned = "none" /\ exit_status = -1
    /\ sim = <<>> /\ images = <<>> /\ given = <<>> /\ has_nsfw_concepts = <<>>

\* variant: the error of a check is recorded but the run goes on
After_continue(res, next) == next

\* where the run goes after a check: on with the next one, or out of main
\* with the exception the check raised
After(res, next) == IF res.error = NoError THEN next ELSE "raised"

\* check_submission up to the call of check_q1
CheckSubmissionOpen ==
    /\ pc = "check_submission"
    /\ called' = Append(called, "declaration")
    /\ LET err == IF ~archive.zipExists
                  THEN InvalidSubmissionError("zip", "zip", "not found")
                  ELSE IF ~DeclarationExists(archive)
                  THEN InvalidSubmissionError(DECLARATION_OF_ORIGINALITY_FILENAME,
                                              DECLARATION_OF_ORIGINALITY_FILENAME, "not found")
                  ELSE NoError
       IN  /\ raised' = err
           /\ pc' = After(Result(<<>>, err), "check_q1")
    /\ UNCHANGED <<archive, warnings_list, stdout, versionVars, idVars, safetyVars>>

RunCheck(here, name, res, next) ==
    /\ pc = here
    /\ called' = Append(called, name)
    /\ warnings_list' = warnings_list \o res.warnings
    /\ raised' = res.error
    /\ pc' = After(res, next)
    /\ UNCHANGED <<archive, stdout, versionVars, idVars, safetyVars>>

CheckQ1 == RunCheck("check_q1", "Q1", check_q1(archive), "check_q2")
CheckQ2 == RunCheck("check_q2", "Q2", check_q2(archive), "check_q3")
CheckQ3 == RunCheck("check_q3", "Q3", check_q3(archive), "report")

OkMessage == [kind |-> "ok", file |-> ""]
Banner == [kind |-> "banner", file |-> ""]
WarningMessage(w) == [kind |-> "warning", file |-> w.file]

\* main after check_submission returned
Report ==
    /\ pc = "report"
    /\ stdout' = IF warnings_list = <<>>
                 THEN Append(stdout, OkMessage)
                 ELSE Append(stdout, Banner)
                      \o [i \in 1 .. Len(warnings_list) |-> WarningMessage(warnings_list[i])]
    /\ pc' = "done"
    /\ UNCHANGED <<archive, called, warnings_list, raised, versionVars, idVars, safetyVars>>

Next == CheckSubmissionOpen \/ CheckQ1 \/ CheckQ2 \/ CheckQ3 \/ Report

Spec == Init /\ [][Next]_vars

(***************************************************************************)
(* The artifact contract, as the assignment states it; used to state the   *)
(* properties below.                                                       *)
(***************************************************************************)
GensOk(x) == x.dtype = "str" /\ x.shape = <<60>>
GuessesOk(x) == x.dtype = "int" /\ x.shape = <<80>> /\ x.lo >= 1 /\ x.hi <= 4
\* an unpadded URL-safe base64 string that encodes exactly 50 bytes
KeyOk(k) == k.junk = 0 /\ (k.chars % 4) # 1 /\ (6 * k.chars) \div 8 = 50
Q2ArrayOk(x) == x.dtype = "int" /\ Size(x.shape) <= 140
Q3Ok(t) == t.lines = 21

\* the present artifacts that violate their contract
Malformed(a) ==
    {n \in {Q1_GENS_FILENAME} : a.gens.present /\ ~GensOk(a.gens)}
    \cup {n \in {Q1_GUESSES_FILENAME} : a.guesses.present /\ ~GuessesOk(a.guesses)}
    \cup {n \in {Q2_API_KEY_FILENAME} : a.key.present /\ ~KeyOk(a.key)}
    \cup {n \in {Q2_PVALUE_FILENAME} : a.pvalue.present /\ ~Q2ArrayOk(a.pvalue)}
    \cup {n \in {Q2_BOOL_FILENAME} : a.bool.present /\ ~Q2ArrayOk(a.bool)}
    \cup {n \in {Q3_GUESSES_FILENAME} : a.q3.present /\ ~Q3Ok(a.q3)}

\* the artifacts that are absent (the code file counts as one artifact)
Absent(a) ==
    {n \in {Q1_GENS_FILENAME} : ~a.gens.present}
    \cup {n \in {Q1_GUESSES_FILENAME} : ~a.guesses.present}
    \cup {n \in {Q2_API_KEY_FILENAME} : ~a.key.present}
    \cup {n \in {Q2_CODE_FILENAME} : ~a.code_py /\ ~a.code_ipynb}
    \cup {n \in {Q2_PVALUE_FILENAME} : ~a.pvalue.present}
    \cup {n \in {Q2_BOOL_FILENAME} : ~a.bool.present}
    \cup {n \in {Q3_GUESSES_FILENAME} : ~a.q3.present}

\* the declaration lies in the folder the artifacts are resolved against: the
\* directory named after the archive when the zip has one, else its top level
DeclarationInRoot(a) == (a.subdir /\ a.declSub) \/ (~a.subdir /\ a.declTop)
HasDeclaration(a) == a.zipExists /\ DeclarationInRoot(a)
Fatal == pc = "raised" /\ raised.exc = "InvalidSubmissionError"
CheckOrder == <<"declaration", "Q1", "Q2", "Q3">>

\* C1: with the declaration present, a present artifact that violates its
\* contract makes the run end with a fatal InvalidSubmissionError and never
\* reach the success message or the warnings banner.
C1_MalformedAlwaysFatal ==
    (HasDeclaration(archive) /\ Malformed(archive) # {})
        => /\ pc \notin {"report", "done"}
           /\ stdout = <<>>
           /\ (pc = "raised" => raised.exc = "InvalidSubmissionError")

\* C2 (as claimed): past the declaration and Q1 checks, two Q2_code files make
\* check_q2 raise the "Multiple Q2_code files" error whatever else Q2 holds.
C2_MultipleAlwaysFatal ==
    (/\ HasDeclaration(archive)
     /\ check_q1(archive).error = NoError
     /\ archive.code_py /\ archive.code_ipynb
     /\ Len(called) >= 3)
        => /\ Fatal
           /\ raised.constraint = "multiple"
           /\ called = <<"declaration", "Q1", "Q2">>

\* C2 (amended): the same, provided Q2_key.txt is present and passes the
\* token check of check_q2.
C2_MultipleFatalAfterKey ==
    (/\ HasDeclaration(archive)
     /\ check_q1(archive).error = NoError
     /\ archive.key.present /\ is_valid_token_urlsafe(archive.key, Q2_KEY_LEN)
     /\ archive.code_py /\ archive.code_ipynb
     /\ Len(called) >= 3)
        => /\ Fatal
           /\ raised.constraint = "multiple"
           /\ called = <<"declaration", "Q1", "Q2">>

C2_Witness ==
    /\ Fatal /\ raised.constraint = "multiple"
    /\ archive.code_py /\ archive.code_ipynb
    /\ ~archive.pvalue.present

\* what the i-th check does on the archive
ResultOf(name) ==
    CASE name = "declaration" ->
            Result(<<>>, IF HasDeclaration(archive) THEN NoError
                         ELSE InvalidSubmissionError("", "", "not found"))
      [] name = "Q1" -> check_q1(archive)
      [] name = "Q2" -> check_q2(archive)
      [] name = "Q3" -> check_q3(archive)

\* C3: the checks run in the order declaration, Q1, Q2, Q3; no check is
\* entered after one that raised; nothing is printed once an error was raised,
\* and output appears only after all four checks returned without error.
C3_FatalStopsRun ==
    /\ called = SubSeq(CheckOrder, 1, Len(called))
    /\ \A i \in 1 .. Len(called) - 1 : ResultOf(called[i]).error = NoError
    /\ (raised # NoError => pc = "raised" /\ stdout = <<>>)
    /\ (stdout # <<>> => called = CheckOrder /\ raised = NoError /\ pc = "done")

C3_Witness ==
    /\ pc = "raised" /\ raised # NoError
    /\ warnings_list # <<>>
    /\ Len(called) < Len(CheckOrder)
    /\ stdout = <<>>

\* C4: declaration present and every present artifact well-formed: with
\* exactly one artifact absent the run completes and prints the banner and
\* exactly one warning naming the absent file; with none absent it prints
\* "Everything is ok!" alone.
C4_OneAbsentOneWarning ==
    (/\ HasDeclaration(archive)
     /\ Malformed(archive) = {}
     /\ ~(archive.code_py /\ archive.code_ipynb)
     /\ Cardinality(Absent(archive)) <= 1)
        => /\ pc # "raised"
           /\ (pc = "done" =>
                 IF Absent(archive) = {}
                 THEN stdout = <<OkMessage>>
                 ELSE /\ Len(stdout) = 2
                      /\ stdout[1] = Banner
                      /\ stdout[2].kind = "warning"
                      /\ stdout[2].file \in Absent(archive))

\* C5: without the declaration in the resolved root of an existing archive the
\* run ends with a fatal error before any question check is entered; nothing
\* is recorded as a warning and nothing is printed.
C5_DeclarationRequired ==
    (archive.zipExists /\ ~DeclarationInRoot(archive))
        => /\ pc \in {"check_submission", "raised"}
           /\ called \in {<<>>, <<"declaration">>}
           /\ warnings_list = <<>> /\ stdout = <<>>
           /\ (pc = "raised" =>
                 /\ raised.exc = "InvalidSubmissionError"
                 /\ raised.file = DECLARATION_OF_ORIGINALITY_FILENAME)

C5_Witness ==
    /\ pc = "raised"
    /\ raised.file = DECLARATION_OF_ORIGINALITY_FILENAME
    /\ archive.subdir /\ archive.declTop /\ ~archive.declSub

\* C6: a fatal error raised for a malformed artifact names, in its message,
\* the file whose content violated the contract.
C6_ErrorNamesFile ==
    (raised.exc = "InvalidSubmissionError"
        /\ raised.constraint \in {"dtype", "shape", "range", "decode", "size", "lines"})
        => raised.file = raised.loaded

\* C7: once check_q2 is at the array checks, a present Q2_pvalue.npy or
\* Q2_bool.npy is accepted exactly if it is an integer array of at most 140
\* elements, and any other present array ends the run with an
\* InvalidSubmissionError about that file.
ReachesArrays(a) ==
    /\ HasDeclaration(a) /\ check_q1(a).error = NoError
    /\ a.key.present /\ is_valid_token_urlsafe(a.key, Q2_KEY_LEN)
    /\ Q2CodeFiles(a) = "one"

C7_ArrayAcceptedIffSmallInt ==
    (ReachesArrays(archive) /\ Len(called) >= 3)
        => /\ archive.pvalue.present =>
                IF Q2ArrayOk(archive.pvalue)
                THEN raised.loaded # Q2_PVALUE_FILENAME
                ELSE Fatal /\ raised.loaded = Q2_PVALUE_FILENAME
           /\ (archive.bool.present
               /\ (archive.pvalue.present => Q2ArrayOk(archive.pvalue))) =>
                IF Q2ArrayOk(archive.bool)
                THEN raised.loaded # Q2_BOOL_FILENAME
                ELSE Fatal /\ raised.loaded = Q2_BOOL_FILENAME

(***************************************************************************)
(* check_script_version and its call in main.                              *)
(***************************************************************************)
\* exit statuses of wget and diff range over 0 .. MaxReturnCode
MaxReturnCode == 2

OSError(what) == [exc |-> "OSError", file |-> "", loaded |-> "", constraint |-> what]
Line(kind) == [kind |-> kind, file |-> ""]

\* what the host does at each step: shutil.which finds the tools or not,
\* NamedTemporaryFile, subprocess.run and unlink succeed or raise OSError,
\* the commands exit with a status, the temporary file is still there or not
Envs ==
    [wget : BOOLEAN, diff : BOOLEAN,
     mktemp : {"ok", "raise"},
     wget_run : {"ok", "raise"}, wget_returncode : 0 .. MaxReturnCode,
     diff_run : {"ok", "raise"}, diff_returncode : 0 .. MaxReturnCode,
     temp_exists : BOOLEAN,
     unlink : {"ok", "raise"}]

\* the try block of check_script_version with its except clause: the lines
\* printed; every exception raised inside is caught and printed as a warning
VersionTry(e) ==
    IF e.wget_run = "raise" THEN <<Line("warning: exception")>>
    ELSE IF e.wget_returncode # 0 THEN <<Line("warning: download failed")>>
    ELSE IF e.diff_run = "raise" THEN <<Line("warning: exception")>>
    ELSE IF e.diff_returncode = 1 THEN <<Line("SCRIPT OUTDATED")>>
    ELSE IF e.diff_returncode = 0 THEN <<Line("latest version")>>
    ELSE <<Line("warning: diff error")>>

\* the finally clause: the exception unlink lets out, if any
VersionFinally(e) ==
    IF e.temp_exists /\ e.unlink = "raise" THEN OSError("unlink") ELSE NoError

check_script_version(e) ==
    IF ~e.wget \/ ~e.diff
    THEN [printed |-> <<Line("checking"), Line("warning: tools not found")>>,
          error |-> NoError]
    ELSE IF e.mktemp = "raise"
    THEN [printed |-> <<Line("checking")>>, error |-> OSError("NamedTemporaryFile")]
    ELSE [printed |-> <<Line("checking")>> \o VersionTry(e),
          error |-> VersionFinally(e)]

InitVersion ==
    /\ env \in Envs
    /\ pc = "main"
    /\ stdout = <<>>
    /\ raised = NoError
    /\ archive = <<>> /\ called = <<>> /\ warnings_list = <<>>
    /\ argv = <<>> /\ argc = 0 /\ returned = "none" /\ exit_status = -1
    /\ sim = <<>> /\ images = <<>> /\ given = <<>> /\ has_nsfw_concepts = <<>>

\* main: check_script_version()
CheckScriptVersion ==
    /\ pc = "main"
    /\ LET r == check_script_version(env)
       IN  /\ stdout' = stdout \o r.printed
           /\ raised' = r.error
           /\ pc' = IF r.error = NoError THEN "version_checked" ELSE "raised"
    /\ UNCHANGED <<checkerVars, versionVars, idVars, safetyVars>>

\* main: the with block is entered and check_submission called
MainCallsCheckSubmission ==
    /\ pc = "version_checked"
    /\ pc' = "check_submission"
    /\ UNCHANGED <<stdout, raised, checkerVars, versionVars, idVars, safetyVars>>

NextVersion == CheckScriptVersion \/ MainCallsCheckSubmission

SpecVersion == InitVersion /\ [][NextVersion]_vars

\* C10: whatever happens in a step of check_script_version, the function
\* returns to main without raising and main goes on to check_submission.
C10_VersionCheckNeverRaises ==
    /\ pc # "raised"
    /\ raised = NoError
    /\ pc \in {"main", "version_checked", "check_submission"}

(***************************************************************************)
(* is_valid_student_id (utils.py) and the entry point of the checker.      *)
(***************************************************************************)
\* an input differs from a well-formed id by at most MaxEdits edits
MaxEdits == 1

\* characters: an ASCII digit, ARABIC-INDIC DIGIT THREE (category Nd), the
\* hyphen, a letter and a line feed
ASCIIDigits == {"1"}
UnicodeDigits == ASCIIDigits \cup {"U+0663"}
Alphabet == UnicodeDigits \cup {"-", "a", "\n"}

\* r"^\d{2}-\d{3}-\d{3}$" item by item, between the anchors
PATTERN == <<"\\d", "\\d", "-", "\\d", "\\d", "\\d", "-", "\\d", "\\d", "\\d">>

\* one pattern item against one character; in a str pattern \d matches any
\* Unicode decimal digit
MatchesItem(item, ch) == IF item = "\\d" THEN ch \in UnicodeDigits ELSE ch = item

\* "$" at position i of s (1-based, i = number of characters consumed + 1):
\* at the end of the string, or just before a line feed that ends the string
MatchesDollar(s, i) == i = Len(s) + 1 \/ (i = Len(s) /\ s[i] = "\n")

\* bool(re.match(pattern, s)): the items match a prefix of s and "$" matches
\* right after it
re_match(pattern, s) ==
    /\ Len(s) >= Len(pattern)
    /\ \A i \in 1 .. Len(pattern) : MatchesItem(pattern[i], s[i])
    /\ MatchesDollar(s, Len(pattern) + 1)

is_valid_student_id(input_string) == re_match(PATTERN, input_string)

WellFormedId == <<"1", "1", "-", "1", "1", "1", "-", "1", "1", "1">>

Edits(s) ==
    {[i \in 1 .. Len(s) |-> IF i = k THEN c ELSE s[i]] : k \in 1 .. Len(s), c \in Alphabet}
    \cup {SubSeq(s, 1, k) \o <<c>> \o SubSeq(s, k + 1, Len(s)) : k \in 0 .. Len(s), c \in Alphabet}
    \cup {SubSeq(s, 1, k - 1) \o SubSeq(s, k + 1, Len(s)) : k \in 1 .. Len(s)}

RECURSIVE Edited(_)
Edited(n) == IF n = 0 THEN {WellFormedId}
             ELSE LET S == Edited(n - 1) IN S \cup UNION {Edits(s) : s \in S}

\* ids with a misplaced hyphen, with leading and with trailing characters
Misplaced ==
    {<<"1", "1", "1", "-", "1", "1", "-", "1", "1", "1">>,
     <<"1", "1", "-", "1", "1", "-", "1", "1", "1", "1">>,
     <<"a">> \o WellFormedId \o <<"a">>,
     WellFormedId \o <<"\n", "\n">>,
     WellFormedId \o <<"\n", "1">>}

InitId ==
    /\ argv \in Edited(MaxEdits) \cup Misplaced
    /\ argc \in 1 .. 3
    /\ pc \in {"is_valid_student_id", "__main__"}
    /\ returned = "none"
    /\ exit_status = -1
    /\ stdout = <<>>
    /\ raised = NoError
    /\ archive = <<>> /\ called = <<>> /\ warnings_list = <<>> /\ env = <<>>
    /\ sim = <<>> /\ images = <<>> /\ given = <<>> /\ has_nsfw_concepts = <<>>

\* a call of utils.is_valid_student_id on the input
CallIsValidStudentId ==
    /\ pc = "is_valid_student_id"
    /\ returned' = IF is_valid_student_id(argv) THEN "True" ELSE "False"
    /\ pc' = "returned"
    /\ UNCHANGED <<argv, argc, exit_status, stdout, raised, checkerVars, versionVars, safetyVars>>

\* the block under if __name__ == "__main__"
EntryPoint ==
    /\ pc = "__main__"
    /\ IF argc # 2
       THEN /\ stdout' = <<Line("usage")>>
            /\ exit_status' = 1
            /\ pc' = "exited"
       ELSE IF ~re_match(PATTERN, argv)
       THEN /\ stdout' = <<Line("format")>>
            /\ exit_status' = 1
            /\ pc' = "exited"
       ELSE /\ pc' = "main"
            /\ UNCHANGED <<stdout, exit_status>>
    /\ UNCHANGED <<argv, argc, returned, raised, checkerVars, versionVars, safetyVars>>

NextId == CallIsValidStudentId \/ EntryPoint

SpecId == InitId /\ [][NextId]_vars

\* the form the assignment asks for: exactly ten characters, digits and
\* hyphens in their places (any decimal digit counts)
IsStudentId(s) ==
    /\ Len(s) = 10
    /\ \A i \in 1 .. 10 : IF i \in {3, 7} THEN s[i] = "-" ELSE s[i] \in UnicodeDigits

\* C8: is_valid_student_id returns true exactly for the ten-character strings
\* of the form DD-DDD-DDD, and for any other argument the entry point exits
\* with status 1 without entering main.
C8_StudentIdExactForm ==
    /\ returned # "none" => (returned = "True" <=> IsStudentId(argv))
    /\ (~IsStudentId(argv) /\ pc \notin {"is_valid_student_id", "returned"})
          => /\ pc \in {"__main__", "exited"}
             /\ (pc = "exited" => exit_status = 1)

(***************************************************************************)
(* MySafetyChecker.forward (safety_checker.py).  Similarities are integers *)
(* in units of 0.0001, rounded scores integers in units of 0.001; both are *)
(* compared as exact decimals.                                             *)
(***************************************************************************)
\* images per batch, bad concepts per checker
MaxBatch == 2
MaxConcepts == 2

\* the threshold 0.28 of forward, in units of 0.001
THRESHOLD == 280

SimValues == {2800, 2804, 2806, 3000}

\* round(concept_cos, 3): to the nearest 0.001, ties to the even neighbour
round3(v) ==
    LET q == v \div 10
        r == v % 10
    IN  IF r < 5 THEN q
        ELSE IF r > 5 THEN q + 1
        ELSE IF q % 2 = 0 THEN q ELSE q + 1

\* result_img["bad_concepts"] for one row of the similarity matrix
bad_concepts(row) == {c \in 1 .. Len(row) : round3(row[c]) > THRESHOLD}

\* np.zeros(shape)
zeros(shape) == [shape |-> shape, pixels |-> "zeros"]

\* the i-th image of a generated batch
Image(i) == [shape |-> <<i, 8, 3>>, pixels |-> "content"]

InitSafety ==
    /\ \E n \in 0 .. MaxBatch, k \in 1 .. MaxConcepts :
          /\ sim \in [1 .. n -> [1 .. k -> SimValues]]
          /\ images = [i \in 1 .. n |-> Image(i)]
    /\ given = images
    /\ has_nsfw_concepts = <<>>
    /\ pc = "forward"
    /\ stdout = <<>>
    /\ raised = NoError
    /\ archive = <<>> /\ called = <<>> /\ warnings_list = <<>> /\ env = <<>>
    /\ argv = <<>> /\ argc = 0 /\ returned = "none" /\ exit_status = -1

Forward ==
    /\ pc = "forward"
    /\ LET flags == [i \in 1 .. Len(sim) |-> bad_concepts(sim[i]) # {}]
       IN  /\ has_nsfw_concepts' = flags
           /\ images' = [i \in 1 .. Len(images) |->
                            IF flags[i] THEN zeros(images[i].shape) ELSE images[i]]
           /\ stdout' = IF \E i \in 1 .. Len(flags) : flags[i]
                        THEN <<Line("similarity"), Line("bad content detected")>>
                        ELSE <<Line("similarity")>>
    /\ pc' = "returned"
    /\ UNCHANGED <<sim, given, raised, checkerVars, versionVars, idVars>>

NextSafety == Forward

SpecSafety == InitSafety /\ [][NextSafety]_vars

\* C9: after forward, there is one flag per image in batch order; the flag of
\* image i is true exactly if its similarity to some bad concept exceeds 0.28;
\* a flagged image is an all-zero image of the same shape and an unflagged
\* one is returned as given.
C9_FlagIffAboveThreshold ==
    pc = "returned" =>
        /\ Len(has_nsfw_concepts) = Len(given)
        /\ \A i \in 1 .. Len(given) :
              /\ has_nsfw_concepts[i] <=> (\E c \in 1 .. Len(sim[i]) : sim[i][c] > 2800)
              /\ has_nsfw_concepts[i] => images[i] = zeros(given[i].shape)
              /\ ~has_nsfw_concepts[i] => images[i] = given[i]

====
